---- MODULE Spec2Model ----
(***************************************************************************)
(* A model of src/result.py: the Result wrapper (classes Result, OK,       *)
(* ERROR), the constructors Ok/Error, the consumers unwrap, is_ok,         *)
(* is_error, Result.match and the string rendering, and the class factory  *)
(* to_error.                                                               *)
(*                                                                         *)
(* Python objects live in a heap (a sequence; an object's identity is its  *)
(* index).  Text is a sequence of characters, so that containment and      *)
(* prefixes of renderings are computed, not assumed.                       *)
(***************************************************************************)
EXTENDS Integers, Sequences, FiniteSets, TLC

VARIABLES
    heap,      \* the Result objects constructed so far: [cls, value, type]
    classes,   \* the classes made by to_error so far (class objects, by index)
    optimize,  \* TRUE when the interpreter runs with -O (assert statements are compiled out)
    last,      \* the record of the most recent call: its arguments and its outcome
    born,      \* history: each Result object as it was right after construction
    returned   \* history: the to_error calls that returned, in call order: [type, name, explanation]

vars == <<heap, classes, optimize, last, born, returned>>

\* ------------------------------------------------------------------ bounds

\* At most this many objects are allocated in a run: Result objects and the
\* classes made by to_error, together.
MaxAllocs == 3

\* ------------------------------------------------------------------ text

\* The character U+0000, and a lone surrogate code point (U+D800).
NUL == "\\0"
SURROGATE == "\\ud800"

IsPrefix(p, s) == Len(p) <= Len(s) /\ SubSeq(s, 1, Len(p)) = p

Contains(s, t) == \E i \in 0..(Len(s) - Len(t)) : SubSeq(s, i + 1, i + Len(t)) = t

Digit(d) == <<"0", "1", "2", "3", "4", "5", "6", "7", "8", "9">>[d + 1]

RECURSIVE int_str(_)
int_str(n) == IF n < 10 THEN <<Digit(n)>> ELSE int_str(n \div 10) \o <<Digit(n % 10)>>

\* ------------------------------------------------------------------ types

Builtin(tag) == [tag |-> tag, id |-> 0]
ResultT == Builtin("Result")
OKT == Builtin("OK")
ERRORT == Builtin("ERROR")
ErrorTypeT == Builtin("ErrorType")
ObjectT == Builtin("object")
IntT == Builtin("int")
StrT == Builtin("str")
NoneT == Builtin("NoneType")
Dyn(n) == [tag |-> "type", id |-> n]

\* ------------------------------------------------------------------ values

\* A Python value: an int, a str, an instance of ErrorType or of a class made
\* by to_error, a reference to a Result object of the heap, a bool, a class,
\* or None.
IntVal(n) == [kind |-> "int", n |-> n, s |-> <<>>]
StrVal(s) == [kind |-> "str", n |-> 0, s |-> s]
ErrVal == [kind |-> "obj", n |-> 0, s |-> <<>>]
InstVal(c) == [kind |-> "obj", n |-> c, s |-> <<>>]
RefVal(o) == [kind |-> "res", n |-> o, s |-> <<>>]
BoolVal(b) == [kind |-> "bool", n |-> IF b THEN 1 ELSE 0, s |-> <<>>]
TypeVal(c) == [kind |-> "class", n |-> c, s |-> <<>>]
NoneVal == [kind |-> "None", n |-> 0, s |-> <<>>]

\* type(v)
TypeOf(h, v) ==
    CASE v.kind = "int" -> IntT
      [] v.kind = "str" -> StrT
      [] v.kind = "obj" -> IF v.n = 0 THEN ErrorTypeT ELSE Dyn(v.n)
      [] v.kind = "res" -> h[v.n].cls
      [] v.kind = "bool" -> Builtin("bool")
      [] v.kind = "class" -> Builtin("type")
      [] OTHER -> NoneT

\* ------------------------------------------------------------------ classes

\* class Result: the class attributes every instance starts from.
Result_new == [cls |-> ResultT, value |-> StrVal(<<>>), type |-> NoneT]

\* OK.__init__
OK_init(h, v) == [cls |-> OKT, value |-> v, type |-> TypeOf(h, v)]

\* ERROR.__init__
ERROR_init(h, v) == [cls |-> ERRORT, value |-> v, type |-> TypeOf(h, v)]

\* ErrorType.__str__
ErrorType_str == <<>>

\* The __repr__ of a class made by to_error: f"{name}, {explanation}" over the
\* two strings the lambda closed over.
Dyn_repr(c) == c.cl_name \o <<",", " ">> \o c.cl_explanation

\* The __str__ of a class made by to_error: self.__repr__()
Dyn_str(c) == Dyn_repr(c)

RECURSIVE Repr(_, _, _)
RECURSIVE Format(_, _, _)

\* Result.__repr__
Result_repr(h, cl, o) == <<"R", "e", "s", "u", "l", "t", "<">> \o Format(h, cl, h[o].value) \o <<">">>

\* OK without a __repr__ of its own: it inherits Result.__repr__.
OK_repr_inherited(h, cl, o) == Result_repr(h, cl, o)

\* OK.__repr__
OK_repr(h, cl, o) == <<"O", "k", "(">> \o Format(h, cl, h[o].value) \o <<")">>

\* ERROR.__repr__
ERROR_repr(h, cl, o) == <<"E", "r", "r", "o", "r", "(">> \o Format(h, cl, h[o].value) \o <<")">>

\* repr(o) of a Result object, by the class of the object.
Repr(h, cl, o) ==
    CASE h[o].cls = OKT -> OK_repr(h, cl, o)
      [] h[o].cls = ERRORT -> ERROR_repr(h, cl, o)
      [] OTHER -> Result_repr(h, cl, o)

\* What an f-string field {v} renders: str(v).
Format(h, cl, v) ==
    CASE v.kind = "int" -> int_str(v.n)
      [] v.kind = "str" -> v.s
      [] v.kind = "obj" -> IF v.n = 0 THEN ErrorType_str ELSE Dyn_str(cl[v.n])
      [] v.kind = "res" -> Repr(h, cl, v.n)
      [] OTHER -> <<>>

\* OK.__str__ / ERROR.__str__ / Result.__str__: self.__repr__()
Str(h, cl, o) == Repr(h, cl, o)

\* The method resolution order of a type, and the subclass and instance tests.
Mro(cl, t) ==
    CASE t.tag = "type" -> <<t>> \o cl[t.id].bases \o <<ObjectT>>
      [] t \in {OKT, ERRORT} -> <<t, ResultT, ObjectT>>
      [] t = ObjectT -> <<ObjectT>>
      [] OTHER -> <<t, ObjectT>>

IsSubclass(cl, t, u) == \E i \in DOMAIN Mro(cl, t) : Mro(cl, t)[i] = u

IsInstance(h, cl, v, u) == IsSubclass(cl, TypeOf(h, v), u)

\* ------------------------------------------------------------------ functions

\* Ok that flattens: a payload that is a Result already is passed through.
Ok_flatten(h, v) == IF v.kind = "res" THEN h[v.n] ELSE OK_init(h, v)

\* Ok(value)
Ok(h, v) == OK_init(h, v)

\* Error(value)
Error(h, v) == ERROR_init(h, v)

\* is_ok(value)
is_ok(h, o) == h[o].cls = OKT

\* is_error(value)
is_error(h, o) == h[o].cls = ERRORT

UnwrapMsg == <<"U", "n", "w", "r", "a", "p", "p", "i", "n", "g", " ",
               "e", "r", "r", "o", "r", " ", ":", " ">>

\* unwrap that returns the wrapper (value) where the code returns value.value.
unwrap_wrapper(h, cl, opt, o) ==
    IF ~opt /\ ~(h[o].cls # ERRORT)
    THEN [raised |-> TRUE, exc |-> "Exception", msg |-> UnwrapMsg \o Str(h, cl, o),
          ret |-> NoneVal, heap |-> h]
    ELSE [raised |-> FALSE, exc |-> "", msg |-> <<>>, ret |-> RefVal(o), heap |-> h]

\* unwrap that moves the payload out of the wrapper, leaving None behind.
unwrap_take(h, cl, opt, o) ==
    IF ~opt /\ ~(h[o].cls # ERRORT)
    THEN [raised |-> TRUE, exc |-> "Exception", msg |-> UnwrapMsg \o Str(h, cl, o),
          ret |-> NoneVal, heap |-> h]
    ELSE [raised |-> FALSE, exc |-> "", msg |-> <<>>, ret |-> h[o].value,
          heap |-> [h EXCEPT ![o].value = NoneVal]]

\* unwrap(value): the assert statement is compiled out under -O, and then
\* nothing raises AssertionError.
unwrap(h, cl, opt, o) ==
    IF ~opt /\ ~(h[o].cls # ERRORT)
    THEN [raised |-> TRUE, exc |-> "Exception", msg |-> UnwrapMsg \o Str(h, cl, o),
          ret |-> NoneVal, heap |-> h]
    ELSE [raised |-> FALSE, exc |-> "", msg |-> <<>>, ret |-> h[o].value, heap |-> h]

\* The handlers a caller passes to match: lambda v: v, and lambda _: "Error".
Handlers == {"identity", "const"}

Apply(f, v) == IF f = "identity" THEN v ELSE StrVal(<<"E", "r", "r", "o", "r">>)

\* match with the two handlers taken in the wrong order.
Result_match_swapped(h, o, ok, error) ==
    IF h[o].cls = OKT
    THEN [ret |-> Apply(error, h[o].value),
          calls |-> <<[param |-> "error", f |-> error, arg |-> h[o].value]>>, heap |-> h]
    ELSE [ret |-> Apply(ok, h[o].value),
          calls |-> <<[param |-> "ok", f |-> ok, arg |-> h[o].value]>>, heap |-> h]

\* Result.match(ok, error): the value returned and the handler calls made.
Result_match(h, o, ok, error) ==
    IF h[o].cls = OKT
    THEN [ret |-> Apply(ok, h[o].value),
          calls |-> <<[param |-> "ok", f |-> ok, arg |-> h[o].value]>>, heap |-> h]
    ELSE [ret |-> Apply(error, h[o].value),
          calls |-> <<[param |-> "error", f |-> error, arg |-> h[o].value]>>, heap |-> h]

\* type(name, bases, dict) refuses a name with a null character (ValueError)
\* and a name that is not encodable as UTF-8 (UnicodeEncodeError).
TypeNameError(name) ==
    IF \E i \in DOMAIN name : name[i] = NUL THEN "ValueError"
    ELSE IF \E i \in DOMAIN name : name[i] = SURROGATE THEN "UnicodeEncodeError"
    ELSE ""

\* to_error whose __repr__ leaves the name out.
to_error_noname(cl, name, explanation) ==
    IF TypeNameError(name) # ""
    THEN [raised |-> TRUE, exc |-> TypeNameError(name), ret |-> NoneVal, classes |-> cl]
    ELSE [raised |-> FALSE, exc |-> "", ret |-> TypeVal(Len(cl) + 1),
          classes |-> Append(cl, [tname |-> name,
                                  bases |-> <<ErrorTypeT>>,
                                  cl_name |-> <<>>,
                                  cl_explanation |-> explanation,
                                  name |-> name])]

\* to_error that keeps a registry by name and hands an existing class out again.
to_error_cached(cl, name, explanation) ==
    IF TypeNameError(name) # ""
    THEN [raised |-> TRUE, exc |-> TypeNameError(name), ret |-> NoneVal, classes |-> cl]
    ELSE IF \E k \in DOMAIN cl : cl[k].tname = name
    THEN [raised |-> FALSE, exc |-> "",
          ret |-> TypeVal(CHOOSE k \in DOMAIN cl : cl[k].tname = name), classes |-> cl]
    ELSE [raised |-> FALSE, exc |-> "", ret |-> TypeVal(Len(cl) + 1),
          classes |-> Append(cl, [tname |-> name,
                                  bases |-> <<ErrorTypeT>>,
                                  cl_name |-> name,
                                  cl_explanation |-> explanation,
                                  name |-> name])]

\* to_error(name, explanation): a new class object on every call.
to_error(cl, name, explanation) ==
    IF TypeNameError(name) # ""
    THEN [raised |-> TRUE, exc |-> TypeNameError(name), ret |-> NoneVal, classes |-> cl]
    ELSE [raised |-> FALSE, exc |-> "", ret |-> TypeVal(Len(cl) + 1),
          classes |-> Append(cl, [tname |-> name,
                                  bases |-> <<ErrorTypeT>>,
                                  cl_name |-> name,
                                  cl_explanation |-> explanation,
                                  name |-> name])]

\* ------------------------------------------------------------------ inputs

Names == {<<"X">>, <<"Y">>, <<"X", NUL>>, <<SURROGATE>>}
Explanations == {<<"b", "a", "d">>}

\* The values a caller can wrap: plain values, error instances, and Result
\* objects that exist already.
Payloads ==
    {IntVal(42), ErrVal}
      \cup {InstVal(c) : c \in DOMAIN classes}
      \cup {RefVal(o) : o \in DOMAIN heap}

NoCall ==
    [op |-> "none", arg |-> 0, ok |-> "", error |-> "", name |-> <<>>, explanation |-> <<>>,
     raised |-> FALSE, exc |-> "", msg |-> <<>>, ret |-> NoneVal, calls |-> <<>>]

\* ------------------------------------------------------------------ actions

Init ==
    /\ heap = <<>>
    /\ classes = <<>>
    /\ optimize \in BOOLEAN
    /\ last = NoCall
    /\ born = <<>>
    /\ returned = <<>>

\* r = Ok(v)
CallOk ==
    \E v \in Payloads :
        /\ Len(heap) + Len(classes) < MaxAllocs
        /\ heap' = Append(heap, Ok(heap, v))
        /\ born' = Append(born, [via |-> "Ok", arg |-> v, obj |-> heap'[Len(heap')]])
        /\ last' = [NoCall EXCEPT !.op = "Ok", !.ret = RefVal(Len(heap) + 1)]
        /\ UNCHANGED <<classes, optimize, returned>>

\* r = Error(v)
CallError ==
    \E v \in Payloads :
        /\ Len(heap) + Len(classes) < MaxAllocs
        /\ heap' = Append(heap, Error(heap, v))
        /\ born' = Append(born, [via |-> "Error", arg |-> v, obj |-> heap'[Len(heap')]])
        /\ last' = [NoCall EXCEPT !.op = "Error", !.ret = RefVal(Len(heap) + 1)]
        /\ UNCHANGED <<classes, optimize, returned>>

\* r = Result()
CallResult ==
    /\ Len(heap) + Len(classes) < MaxAllocs
    /\ heap' = Append(heap, Result_new)
    /\ born' = Append(born, [via |-> "Result", arg |-> NoneVal, obj |-> heap'[Len(heap')]])
    /\ last' = [NoCall EXCEPT !.op = "Result", !.ret = RefVal(Len(heap) + 1)]
    /\ UNCHANGED <<classes, optimize, returned>>

\* The record of a call of is_ok, is_error, unwrap, match or str on object o.
IsOkCall(h, o) == [NoCall EXCEPT !.op = "is_ok", !.arg = o, !.ret = BoolVal(is_ok(h, o))]

IsErrorCall(h, o) == [NoCall EXCEPT !.op = "is_error", !.arg = o, !.ret = BoolVal(is_error(h, o))]

UnwrapCall(h, cl, opt, o) ==
    LET u == unwrap(h, cl, opt, o) IN
    [NoCall EXCEPT !.op = "unwrap", !.arg = o, !.raised = u.raised, !.exc = u.exc,
                   !.msg = u.msg, !.ret = u.ret]

MatchCall(h, o, ok, error) ==
    LET m == Result_match(h, o, ok, error) IN
    [NoCall EXCEPT !.op = "match", !.arg = o, !.ok = ok, !.error = error,
                   !.ret = m.ret, !.calls = m.calls]

StrCall(h, cl, o) == [NoCall EXCEPT !.op = "str", !.arg = o, !.ret = StrVal(Str(h, cl, o))]

\* is_ok(r)
CallIsOk ==
    \E o \in DOMAIN heap :
        /\ last' = IsOkCall(heap, o)
        /\ UNCHANGED <<heap, classes, optimize, born, returned>>

\* is_error(r)
CallIsError ==
    \E o \in DOMAIN heap :
        /\ last' = IsErrorCall(heap, o)
        /\ UNCHANGED <<heap, classes, optimize, born, returned>>

\* unwrap(r)
CallUnwrap ==
    \E o \in DOMAIN heap :
        /\ last' = UnwrapCall(heap, classes, optimize, o)
        /\ heap' = unwrap(heap, classes, optimize, o).heap
        /\ UNCHANGED <<classes, optimize, born, returned>>

\* r.match(ok, error)
CallMatch ==
    \E o \in DOMAIN heap, ok \in Handlers, error \in Handlers :
        /\ ok # error
        /\ last' = MatchCall(heap, o, ok, error)
        /\ heap' = Result_match(heap, o, ok, error).heap
        /\ UNCHANGED <<classes, optimize, born, returned>>

\* str(r)
CallStr ==
    \E o \in DOMAIN heap :
        /\ last' = StrCall(heap, classes, o)
        /\ UNCHANGED <<heap, classes, optimize, born, returned>>

\* T = to_error(name, explanation)
CallToError ==
    \E name \in Names, explanation \in Explanations :
        LET t == to_error(classes, name, explanation) IN
        /\ Len(heap) + Len(classes) < MaxAllocs
        /\ classes' = t.classes
        /\ returned' = IF t.raised THEN returned
                       ELSE Append(returned, [type |-> t.ret, name |-> name,
                                              explanation |-> explanation])
        /\ last' = [NoCall EXCEPT !.op = "to_error", !.name = name,
                                  !.explanation = explanation, !.raised = t.raised,
                                  !.exc = t.exc, !.ret = t.ret]
        /\ UNCHANGED <<heap, optimize, born>>

Next ==
    \/ CallOk
    \/ CallError
    \/ CallResult
    \/ CallIsOk
    \/ CallIsError
    \/ CallUnwrap
    \/ CallMatch
    \/ CallStr
    \/ CallToError

Spec == Init /\ [][Next]_vars

\* ------------------------------------------------------------------ properties

\* How object o was constructed: by Ok(v), by Error(v), or as a bare Result().
Via(o) == born[o].via

Consumers == {"is_ok", "is_error", "unwrap", "match", "str"}

\* C1: every Result object is exactly one of Success and Failure: exactly one
\* of is_ok and is_error is true of it.
C1_ExactlyOneVariant ==
    \A o \in DOMAIN heap : is_ok(heap, o) # is_error(heap, o)

\* C2: an object built by Ok(v) is ok and not an error, an object built by
\* Error(e) is an error and not ok, whatever the payload; the answers the two
\* queries gave say so.
C2_ConstructorsTagged ==
    /\ \A o \in DOMAIN heap :
          /\ Via(o) = "Ok" => is_ok(heap, o) /\ ~is_error(heap, o)
          /\ Via(o) = "Error" => is_error(heap, o) /\ ~is_ok(heap, o)
    /\ (last.op = "is_ok" /\ Via(last.arg) \in {"Ok", "Error"})
          => last.ret = BoolVal(Via(last.arg) = "Ok")
    /\ (last.op = "is_error" /\ Via(last.arg) \in {"Ok", "Error"})
          => last.ret = BoolVal(Via(last.arg) = "Error")

\* is_ok has answered TRUE for an Ok(Error(e)): a Success whose payload is a Failure.
C2_Witness ==
    /\ last.op = "is_ok"
    /\ Via(last.arg) = "Ok"
    /\ born[last.arg].arg.kind = "res"
    /\ Via(born[last.arg].arg.n) = "Error"
    /\ last.ret = BoolVal(TRUE)

\* C3: unwrap of an object built by Error(e) never returns: it raises, and the
\* exception's message embeds the rendering of the object.
C3_UnwrapFailureRaises ==
    (last.op = "unwrap" /\ Via(last.arg) = "Error")
        => /\ last.raised
           /\ Contains(last.msg, Str(heap, classes, last.arg))

\* C4: unwrap of an object built by Ok(v) returns v and does not raise.
C4_UnwrapSuccessReturns ==
    (last.op = "unwrap" /\ Via(last.arg) = "Ok")
        => /\ ~last.raised
           /\ last.ret = born[last.arg].arg

\* unwrap has returned 42 for an Ok(42).
C4_Witness ==
    /\ last.op = "unwrap"
    /\ Via(last.arg) = "Ok"
    /\ born[last.arg].arg = IntVal(42)
    /\ last.ret = IntVal(42)
    /\ ~last.raised

\* C5: match on Ok(v) calls the ok handler once with v, never the error
\* handler, and returns its result; match on Error(e) calls the error handler
\* once with e, never the ok handler, and returns its result.
C5_MatchDispatch ==
    (last.op = "match" /\ Via(last.arg) \in {"Ok", "Error"})
        => LET v == born[last.arg].arg IN
           IF Via(last.arg) = "Ok"
           THEN /\ last.calls = <<[param |-> "ok", f |-> last.ok, arg |-> v]>>
                /\ last.ret = Apply(last.ok, v)
           ELSE /\ last.calls = <<[param |-> "error", f |-> last.error, arg |-> v]>>
                /\ last.ret = Apply(last.error, v)

\* match(identity, lambda _: "Error") on an Error(e) has returned "Error".
C5_Witness ==
    /\ last.op = "match"
    /\ Via(last.arg) = "Error"
    /\ last.ok = "identity"
    /\ last.error = "const"
    /\ Len(last.calls) = 1
    /\ last.ret = StrVal(<<"E", "r", "r", "o", "r">>)

SuccessOpen == <<"S", "u", "c", "c", "e", "s", "s", "(">>
FailureOpen == <<"F", "a", "i", "l", "u", "r", "e", "(">>
OkOpen == <<"O", "k", "(">>
ErrorOpen == <<"E", "r", "r", "o", "r", "(">>

\* C6 as stated: a Success renders as "Success(<value>)" and a Failure as
\* "Failure(<error>)", with <value>/<error> the payload's own rendering.
C6_RendersSuccessFailure ==
    \A o \in DOMAIN heap :
        LET p == Format(heap, classes, born[o].arg) IN
        /\ Via(o) = "Ok" => Str(heap, classes, o) = SuccessOpen \o p \o <<")">>
        /\ Via(o) = "Error" => Str(heap, classes, o) = FailureOpen \o p \o <<")">>

\* C6 as amended: an OK instance renders as "Ok(<value>)", an ERROR instance
\* as "Error(<error>)" and a bare Result as "Result<<value>>", with <value>
\* the payload's own rendering; so the rendering contains the payload's, and
\* the renderings of an OK and of an ERROR instance never open the same way.
C6_RendersOkError ==
    /\ \A o \in DOMAIN heap :
          LET p == Format(heap, classes, born[o].arg)
              r == Str(heap, classes, o) IN
          /\ Via(o) = "Ok" => r = OkOpen \o p \o <<")">> /\ Contains(r, p)
          /\ Via(o) = "Error" => r = ErrorOpen \o p \o <<")">> /\ Contains(r, p)
          /\ Via(o) = "Result" => r = <<"R", "e", "s", "u", "l", "t", "<", ">">>
    /\ \A o1, o2 \in DOMAIN heap :
          (Via(o1) = "Ok" /\ Via(o2) = "Error")
              => /\ ~IsPrefix(OkOpen, Str(heap, classes, o2))
                 /\ ~IsPrefix(ErrorOpen, Str(heap, classes, o1))
    /\ last.op = "str" => last.ret = StrVal(Str(heap, classes, last.arg))

\* str has rendered an Ok(42) as "Ok(42)" while an Error object exists too.
C6_Witness ==
    /\ last.op = "str"
    /\ Via(last.arg) = "Ok"
    /\ last.ret = StrVal(<<"O", "k", "(", "4", "2", ")">>)
    /\ \E o \in DOMAIN heap : Via(o) = "Error"

\* What the claim C7 says of a type t returned by to_error(name, explanation):
\* it is a subclass of ErrorType, its instances render as "<name>, <explanation>",
\* its name attribute is the name, and an Error wrapping an instance renders
\* with "<name>, <explanation>" inside.
IsErrorKind(t, name, explanation) ==
    /\ t.kind = "class"
    /\ t.n \in DOMAIN classes
    /\ IsSubclass(classes, Dyn(t.n), ErrorTypeT)
    /\ Format(heap, classes, InstVal(t.n)) = name \o <<",", " ">> \o explanation
    /\ classes[t.n].name = name
    /\ \A o \in DOMAIN heap :
          (Via(o) = "Error" /\ born[o].arg = InstVal(t.n))
              => Contains(Str(heap, classes, o), name \o <<",", " ">> \o explanation)

\* C7 as stated: for every pair of strings, to_error returns such a type.
C7_EveryPairOfStrings ==
    /\ last.op = "to_error"
          => ~last.raised /\ IsErrorKind(last.ret, last.name, last.explanation)
    /\ \A k \in DOMAIN returned :
          IsErrorKind(returned[k].type, returned[k].name, returned[k].explanation)

\* A name the interpreter takes as a type name: no null character in it, and
\* encodable as UTF-8 (no lone surrogate).
AcceptedName(name) == \A i \in DOMAIN name : name[i] \notin {NUL, SURROGATE}

\* C7 as amended: for every pair of strings whose name has no null character
\* and no lone surrogate, to_error returns such a type; for any other name
\* it raises and makes no type.
C7_AcceptedNames ==
    /\ (last.op = "to_error" /\ AcceptedName(last.name))
          => ~last.raised /\ IsErrorKind(last.ret, last.name, last.explanation)
    /\ (last.op = "to_error" /\ ~AcceptedName(last.name))
          => last.raised /\ last.ret = NoneVal
    /\ \A k \in DOMAIN returned :
          /\ AcceptedName(returned[k].name)
          /\ IsErrorKind(returned[k].type, returned[k].name, returned[k].explanation)

\* str has rendered an Error wrapping an instance of a type made by
\* to_error("X", "bad"), as "Error(X, bad)".
C7_Witness ==
    /\ last.op = "str"
    /\ Via(last.arg) = "Error"
    /\ born[last.arg].arg.kind = "obj"
    /\ born[last.arg].arg.n \in DOMAIN returned
    /\ returned[born[last.arg].arg.n].name = <<"X">>
    /\ last.ret = StrVal(<<"E", "r", "r", "o", "r", "(", "X", ",", " ", "b", "a", "d", ")">>)

\* C8: no two calls of to_error returned the same type, and an instance of
\* one returned type is not an instance of another.
C8_DistinctTypes ==
    \A i, j \in DOMAIN returned :
        i # j => /\ returned[i].type # returned[j].type
                 /\ ~IsInstance(heap, classes, InstVal(returned[i].type.n),
                                Dyn(returned[j].type.n))

\* Two calls of to_error with the same name and the same explanation have returned.
C8_Witness ==
    \E i, j \in DOMAIN returned :
        /\ i # j
        /\ returned[i].name = returned[j].name
        /\ returned[i].explanation = returned[j].explanation
        /\ last.op = "to_error"
        /\ ~last.raised

\* C9: every Result object is as it was right after construction (class,
\* value and recorded payload type), and the answer the latest query gave is
\* the answer the same query gives now.
C9_NoMutation ==
    /\ DOMAIN heap = DOMAIN born
    /\ \A o \in DOMAIN heap : heap[o] = born[o].obj
    /\ last.op = "is_ok" => last = IsOkCall(heap, last.arg)
    /\ last.op = "is_error" => last = IsErrorCall(heap, last.arg)
    /\ last.op = "unwrap" => last = UnwrapCall(heap, classes, optimize, last.arg)
    /\ last.op = "match" => last = MatchCall(heap, last.arg, last.ok, last.error)
    /\ last.op = "str" => last = StrCall(heap, classes, last.arg)

\* unwrap has ended in the fatal path on an object that another object wraps.
C9_Witness ==
    /\ last.op = "unwrap"
    /\ last.raised
    /\ heap[last.arg] = born[last.arg].obj
    /\ \E o \in DOMAIN heap : heap[o].value = RefVal(last.arg)

\* C10: on any Result object, match calls the ok handler exactly when is_ok
\* is true and the error handler exactly when is_error is true, and unwrap
\* raises exactly when match calls the error handler.
C10_ConsumersAgree ==
    last.op = "match"
        => LET o == last.arg
               called == last.calls[1].param IN
           /\ called = "ok" <=> is_ok(heap, o)
           /\ called = "error" <=> is_error(heap, o)
           /\ unwrap(heap, classes, optimize, o).raised <=> called = "error"

====
